---- MODULE Spec2Model ----
(***************************************************************************)
(* A model of the transit-router repository's two source files:            *)
(*   - the CSV loader (loadCSV and its helpers): specification SpecCSV;    *)
(*   - the OverlayMap React component (client/src/overlaymap/map.tsx)      *)
(*     together with the CanvasOverlay it drives: specification Spec;      *)
(*   - the CanvasOverlay controller driven through its public contract by  *)
(*     an arbitrary client: specification SpecOverlay.                     *)
(***************************************************************************)
EXTENDS Integers, Sequences, FiniteSets, TLC

VARIABLES
  \* ---- CSV loader ----
  file,        \* the file system entry for `filename`: NoFile or a sequence of rows
  spec,        \* the CSVSpec passed to loadCSV (captured by the parser callback)
  promise,     \* "none" (not called) | "pending" | "resolved" | "rejected"
  result,      \* the value the promise resolved with (a sequence of records)
  parserStarted, \* parseCSV has been called
  pos,         \* number of rows of the file the parser has delivered so far
  chunks,      \* number of chunks (callback invocations) so far
  isFirst,     \* loadCSV's local `isFirst`
  columns,     \* loadCSV's local `columns` (Null or a sequence of IndexedColumn)
  values,      \* loadCSV's local `values`
  \* ---- CanvasOverlay ----
  overlay,     \* the CanvasOverlay: its state, layers, canvas repaints, faults
  ovLastCall,  \* the overlay method called last
  ovLastHit,   \* what the last overlay.hitTest returned
  \* ---- OverlayMap component ----
  mounted,     \* componentDidMount has run (this.map is set, listeners registered)
  props,       \* this.props
  hasState,    \* this.state is an object (it is null until the first setState)
  pendingSetState, \* the setState({}) of componentDidMount has not been processed
  mousemoveListener, \* a mousemove listener was registered at mount
  thrown,      \* an exception escaped from the handler that ran last
  lastEvent,   \* the handler that ran last: its kind and its event object
  lastTrace,   \* the calls the last handler made, in order
  nEvents,     \* host events delivered so far
  nUpdates,    \* props updates so far
  nBounds,     \* bounds_changed events delivered so far
  nDraws,      \* overlay.draw() calls issued by the component so far
  nSetMap,     \* overlay.setMap() calls issued by the component so far
  earlyCall    \* an updateData, draw or hitTest was issued before any setMap

csvVars == <<file, spec, promise, result, parserStarted, pos, chunks, isFirst, columns, values>>
ovVars == <<overlay, ovLastCall, ovLastHit>>
cmVars == <<mounted, props, hasState, pendingSetState, mousemoveListener, thrown,
            lastEvent, lastTrace, nEvents, nUpdates, nBounds, nDraws, nSetMap, earlyCall>>

vars == <<csvVars, ovVars, cmVars>>

----------------------------------------------------------------------------
(* Bounds *)

\* Largest number of data rows (rows after the header) of a file.
MaxRows == 2
\* Largest number of host events (click, mousemove, bounds_changed) in a run.
MaxEvents == 2
\* Largest number of props updates in a run.
MaxUpdates == 1
\* Largest number of repaints and faults of a CanvasOverlay driven by a client.
MaxCalls == 4

----------------------------------------------------------------------------
(* JavaScript values.  A value is a pair <<kind, payload>> of strings, so   *)
(* that values of different JavaScript types can be compared.              *)

\* The JavaScript `undefined` raw cell (a cell missing from a short row).
Undefined == "<undefined>"
\* An absent optional property (destination) of a column.
NoDest == "<none>"
Null == "<null>"
\* The file system entry of a file that does not exist.
NoFile == [exists |-> FALSE, rows |-> <<>>]
\* loadCSV's `columns` local before the header has been read.
NullColumns == [null |-> TRUE, cols |-> <<>>]
\* The `spec` variable before loadCSV has been called.
NoSpec == [columns |-> <<>>, isOptional |-> FALSE]

JSString(s) == <<"string", s>>
JSUndefined == <<"undefined", "">>
JSNumber(n) == <<"number", n>>
JSBoolean(b) == <<"boolean", IF b THEN "true" ELSE "false">>

\* Raw cell texts a file may hold.
Cells == {"1", "0", "true", "", " 1"}

\* JavaScript Number(x) on a raw cell: whitespace is trimmed, the empty
\* string is 0, anything that is not a numeral (and undefined) is NaN.
NumberOf(cell) ==
  CASE cell = "1" -> "1"
    [] cell = " 1" -> "1"
    [] cell = "0" -> "0"
    [] cell = "" -> "0"
    [] OTHER -> "NaN"

----------------------------------------------------------------------------
(* CSV loader: column specifications *)

ColumnType_STRING == 0
ColumnType_NUMERIC == 1
ColumnType_BOOLEAN == 2
ColumnTypes == {ColumnType_STRING, ColumnType_NUMERIC, ColumnType_BOOLEAN}

\* Column names a spec may use, and names a header may hold ("z" is a file
\* column no spec names).
SpecNames == {"a", "b"}
HeaderNames == {"a", "b", "z"}

Column == [name : SpecNames, type : ColumnTypes, optional : BOOLEAN,
           destination : {NoDest, "x"}]

\* JavaScript `a || b` on strings where an absent property is falsy.
OrElse(a, b) == IF a = NoDest THEN b ELSE a

\* utils.findDuplicate: an element that occurs twice in the list, or Null.
findDuplicate(fields) ==
  IF \E i, j \in DOMAIN fields : i < j /\ fields[i] = fields[j]
  THEN LET j == CHOOSE j \in DOMAIN fields :
                  /\ \E i \in 1..(j - 1) : fields[i] = fields[j]
                  /\ \A k \in 1..(j - 1) : ~ \E i \in 1..(k - 1) : fields[i] = fields[k]
       IN fields[j]
  ELSE Null

\* findSpecError: an error string, or Null if the spec is OK.
findSpecError(s) ==
  LET fields == [i \in DOMAIN s.columns |->
                   OrElse(s.columns[i].destination, s.columns[i].name)]
      dupe == findDuplicate(fields)
  IN IF dupe # Null THEN "Duplicate field in CSV spec" ELSE Null

\* Array.prototype.indexOf: the 0-based index of the first occurrence, or -1.
IndexOf(header, name) ==
  IF \E i \in DOMAIN header : header[i] = name
  THEN (CHOOSE i \in DOMAIN header :
          header[i] = name /\ \A k \in 1..(i - 1) : header[k] # name) - 1
  ELSE -1

\* Mutant of ExtractFrom: a missing required column is skipped like an
\* optional one instead of failing the load.
RECURSIVE ExtractFrom_NoThrow(_, _, _, _)
ExtractFrom_NoThrow(cols, header, i, out) ==
  IF i > Len(cols) THEN [threw |-> FALSE, out |-> out]
  ELSE LET column == cols[i]
           colNum == IndexOf(header, column.name)
       IN IF colNum = -1
          THEN ExtractFrom_NoThrow(cols, header, i + 1, out)
          ELSE ExtractFrom_NoThrow(cols, header, i + 1,
                 Append(out, [name |-> column.name, type |-> column.type,
                              optional |-> column.optional,
                              destination |-> column.destination,
                              number |-> colNum]))

\* The forEach loop of extractColumnMapping from column i on, with `out` so far.
\* The result is [threw |-> TRUE] when a required column is missing.
RECURSIVE ExtractFrom(_, _, _, _)
ExtractFrom(cols, header, i, out) ==
  IF i > Len(cols) THEN [threw |-> FALSE, out |-> out]
  ELSE LET column == cols[i]
           colNum == IndexOf(header, column.name)
       IN IF colNum = -1
          THEN IF ~column.optional
               THEN [threw |-> TRUE, out |-> <<>>]
               ELSE ExtractFrom(cols, header, i + 1, out)
          ELSE ExtractFrom(cols, header, i + 1,
                 Append(out, [name |-> column.name, type |-> column.type,
                              optional |-> column.optional,
                              destination |-> column.destination,
                              number |-> colNum]))

extractColumnMapping(cols, header) == ExtractFrom(cols, header, 1, <<>>)

\* addDestinations: fills in the destination where it is absent.
addDestinations(cols) ==
  [i \in DOMAIN cols |->
     [cols[i] EXCEPT !.destination = OrElse(cols[i].destination, cols[i].name)]]

\* Mutant of At: the column number is taken as a 1-based position.
At_OneBased(row, n) == IF n \in DOMAIN row THEN row[n] ELSE Undefined

\* row[n] for a 0-based n: undefined past the end of a short row.
At(row, n) == IF n + 1 \in DOMAIN row THEN row[n + 1] ELSE Undefined

\* Mutant of ConvertCell: a BOOLEAN cell is true when it reads as the number 1.
ConvertCell_NumericTruth(type, cell) ==
  CASE type = ColumnType_STRING ->
         IF cell = Undefined THEN JSUndefined ELSE JSString(cell)
    [] type = ColumnType_NUMERIC -> JSNumber(NumberOf(cell))
    [] type = ColumnType_BOOLEAN -> JSBoolean(NumberOf(cell) = "1")

\* The value loadCSV stores for one column of one row.
ConvertCell(type, cell) ==
  CASE type = ColumnType_STRING ->
         IF cell = Undefined THEN JSUndefined ELSE JSString(cell)
    [] type = ColumnType_NUMERIC -> JSNumber(NumberOf(cell))
    [] type = ColumnType_BOOLEAN -> JSBoolean(cell = "1")

\* o[key] = val on an object o.
SetField(o, key, val) ==
  [k \in (DOMAIN o) \cup {key} |-> IF k = key THEN val ELSE o[k]]

EmptyObject == [k \in {} |-> JSUndefined]

\* The `for (const column of columns)` loop building the object of one row.
RECURSIVE RowObject(_, _, _, _)
RowObject(cols, row, i, o) ==
  IF i > Len(cols) THEN o
  ELSE RowObject(cols, row, i + 1,
         SetField(o, cols[i].destination,
                  ConvertCell(cols[i].type, At(row, cols[i].number))))

\* Mutant of OnRows: isFirst is never cleared, so every chunk's first row is
\* taken as a header.
OnRows_HeaderEveryChunk(first, cols, vals, rows) ==
  LET mapping == extractColumnMapping(spec.columns, rows[1])
      cols2 == IF mapping.threw THEN cols
               ELSE [null |-> FALSE, cols |-> addDestinations(mapping.out)]
      rows2 == SubSeq(rows, 2, Len(rows))
  IN IF mapping.threw
     THEN [threw |-> TRUE, isFirst |-> TRUE, columns |-> cols, values |-> vals]
     ELSE [threw |-> FALSE, isFirst |-> TRUE, columns |-> cols2,
           values |-> vals \o [r \in DOMAIN rows2 |->
                                 RowObject(cols2.cols, rows2[r], 1, EmptyObject)]]

\* The callback loadCSV hands to parseCSV, applied to one chunk of rows, from
\* the locals (first, cols, vals).  Returns the locals after the call, and
\* whether the callback threw.
OnRows(first, cols, vals, rows) ==
  LET mapping == extractColumnMapping(spec.columns, rows[1])
      cols2 == IF first
               THEN (IF mapping.threw THEN cols
                     ELSE [null |-> FALSE, cols |-> addDestinations(mapping.out)])
               ELSE cols
      rows2 == IF first THEN SubSeq(rows, 2, Len(rows)) ELSE rows
  IN IF first /\ mapping.threw
     THEN [threw |-> TRUE, isFirst |-> FALSE, columns |-> cols, values |-> vals]
     ELSE [threw |-> FALSE, isFirst |-> FALSE, columns |-> cols2,
           values |-> vals \o [r \in DOMAIN rows2 |->
                                 RowObject(cols2.cols, rows2[r], 1, EmptyObject)]]

----------------------------------------------------------------------------
(* CSV loader: inputs *)

\* Sequences over S of length lo..hi.
SeqsOf(S, lo, hi) == UNION {[1..n -> S] : n \in lo..hi}

Specs == [columns : SeqsOf(Column, 0, 2), isOptional : BOOLEAN]

\* Headers: two distinct names, so a header may lack a spec column, hold a
\* column no spec names, and hold the spec's columns in either order.
Headers == {h \in SeqsOf(HeaderNames, 2, 2) : h[1] # h[2]}

\* Two families of files.  Layout files vary the header (order, unknown and
\* missing columns) over rows of two cells; cell files vary the cell text
\* (and rows too short to hold the cell) under the header "a".
LayoutRows == {<<"1", "0">>, <<"0", "1">>}
CellRows == {<<c>> : c \in Cells} \cup {<<>>}

LayoutFiles ==
  {[exists |-> TRUE, rows |-> <<h>> \o d] : h \in Headers, d \in SeqsOf(LayoutRows, 0, MaxRows)}
CellFiles ==
  {[exists |-> TRUE, rows |-> <<(<<"a">>)>> \o d] : d \in SeqsOf(CellRows, 1, MaxRows)}

\* The missing file and the files of a header alone are loaded under every
\* spec; files with data rows under the specs with isOptional unset (loadCSV
\* reads isOptional only when the file does not exist), and cell files under
\* the specs of one column.
Loadable(s, f) ==
  \/ Len(f.rows) <= 1
  \/ ~s.isOptional /\ (f \in LayoutFiles \/ Len(s.columns) = 1)

----------------------------------------------------------------------------
(* CSV loader: operations *)

\* Before loadCSV is called.
IdleCSV ==
  /\ spec = NoSpec
  /\ promise = "none"
  /\ result = <<>>
  /\ parserStarted = FALSE
  /\ pos = 0
  /\ chunks = 0
  /\ isFirst = TRUE
  /\ columns = NullColumns
  /\ values = <<>>

\* Mutant of loadCSVEntry: the existence of the file is checked before the
\* spec, so an optional spec with a duplicate field loads a missing file.
loadCSVEntry_FileFirst(s, exists) ==
  IF ~exists
  THEN IF s.isOptional THEN "empty" ELSE "reject"
  ELSE IF findSpecError(s) # Null THEN "reject" ELSE "parse"

\* What loadCSV does before it starts the parser: "reject", "empty" (resolve
\* with an empty array) or "parse".
loadCSVEntry(s, exists) ==
  IF findSpecError(s) # Null THEN "reject"
  ELSE IF ~exists
       THEN IF s.isOptional THEN "empty" ELSE "reject"
       ELSE "parse"

\* loadCSV(filename, s) up to the point where it returns the promise.
LoadCSV(s) ==
  /\ promise = "none"
  /\ Loadable(s, file)
  /\ spec' = s
  /\ LET entry == loadCSVEntry(s, file.exists)
     IN /\ promise' = CASE entry = "reject" -> "rejected"
                        [] entry = "empty" -> "resolved"
                        [] entry = "parse" -> "pending"
        /\ parserStarted' = (entry = "parse")
  /\ result' = <<>>
  /\ isFirst' = TRUE
  /\ columns' = NullColumns
  /\ values' = <<>>
  /\ UNCHANGED <<file, pos, chunks, ovVars, cmVars>>

\* parseCSV delivers the next n rows of the file to the callback; a callback
\* that throws rejects the promise and ends the parse.
ParserChunk(n) ==
  /\ promise = "pending"
  /\ parserStarted
  /\ pos + n <= Len(file.rows)
  /\ LET r == OnRows(isFirst, columns, values, SubSeq(file.rows, pos + 1, pos + n))
     IN /\ isFirst' = r.isFirst
        /\ columns' = r.columns
        /\ values' = r.values
        /\ promise' = IF r.threw THEN "rejected" ELSE "pending"
  /\ pos' = pos + n
  /\ chunks' = chunks + 1
  /\ UNCHANGED <<file, spec, result, parserStarted, ovVars, cmVars>>

\* parseCSV reaches the end of the file: its promise resolves and loadCSV's
\* `.then(() => values)` delivers the records.
ParserEnd ==
  /\ promise = "pending"
  /\ parserStarted
  /\ pos = Len(file.rows)
  /\ promise' = "resolved"
  /\ result' = values
  /\ UNCHANGED <<file, spec, parserStarted, pos, chunks, isFirst, columns, values,
                 ovVars, cmVars>>

----------------------------------------------------------------------------
(* Layers: the data prop and the overlay's layer list *)

\* A StyledFeatureData object: `id` is the object's identity, `features` and
\* `style` are its two properties (references).  Objects 1 and 2 are distinct
\* and hold the same properties; object 3 holds other features.
Elements == {[id |-> 1, features |-> "f1", style |-> "s1"],
             [id |-> 2, features |-> "f1", style |-> "s1"],
             [id |-> 3, features |-> "f2", style |-> "s1"]}

\* The data prop: absent (undefined), or an array of at most two layers
\* (two different objects).
NoData == [defined |-> FALSE, els |-> <<>>]
DataArrays ==
  {[defined |-> TRUE, els |-> e] :
     e \in {x \in SeqsOf(Elements, 0, 2) : Len(x) = 2 => x[1] # x[2]}}
DataValues == {NoData} \cup DataArrays

\* utils.shallowEqual on two layer objects: the same properties with
\* identical values; the objects themselves need not be identical.
shallowEqual(a, b) == a.features = b.features /\ a.style = b.style

----------------------------------------------------------------------------
(* CanvasOverlay: the controller's state machine Unbound -> Bound -> Disposed *)

\* After construct(onFault): no host, no layers, nothing painted.
NewOverlay == [state |-> "Unbound", data |-> NoData, paints |-> 0, faults |-> 0]

\* The result of hitTest: null, or (layerIndex, feature).
HitNull == [null |-> TRUE, layerIndex |-> 0, feature |-> ""]
Hit(i, f) == [null |-> FALSE, layerIndex |-> i, feature |-> f]

\* A call in Disposed: a no-op reported to the fault sink as a usage fault.
UsageFault(o) == [o EXCEPT !.faults = @ + 1]

\* Rasterizer.draw and the HitIndex rebuild: one full repaint of the canvas.
Repaint(o) == [o EXCEPT !.paints = @ + 1]

\* setMap(host): Unbound -> Bound, with an immediate draw if data was buffered.
OvSetMap(o) ==
  CASE o.state = "Unbound" ->
         LET b == [o EXCEPT !.state = "Bound"]
         IN IF o.data.defined THEN Repaint(b) ELSE b
    [] o.state = "Bound" -> o
    [] o.state = "Disposed" -> UsageFault(o)

\* Mutant of OvUpdateData: a disposed overlay still stores and paints the layers.
OvUpdateData_PaintsWhenDisposed(o, d) ==
  CASE o.state = "Unbound" -> [o EXCEPT !.data = d]
    [] OTHER -> Repaint([o EXCEPT !.data = d])

\* updateData(layers): replaces the layer list; buffered while Unbound, a full
\* rebuild while Bound.
OvUpdateData(o, d) ==
  CASE o.state = "Unbound" -> [o EXCEPT !.data = d]
    [] o.state = "Bound" -> Repaint([o EXCEPT !.data = d])
    [] o.state = "Disposed" -> UsageFault(o)

\* draw(): a forced redraw; there is no canvas to paint outside Bound.
OvDraw(o) ==
  CASE o.state = "Unbound" -> UsageFault(o)
    [] o.state = "Bound" -> Repaint(o)
    [] o.state = "Disposed" -> UsageFault(o)

\* dispose(): detaches the host listeners; Disposed is terminal.
OvDispose(o) ==
  IF o.state = "Disposed" THEN UsageFault(o) ELSE [o EXCEPT !.state = "Disposed"]

\* hitTest(point): the results the id-buffer can give, by the point queried.
\* Outside Bound the only result is null.
OvHitResults(o) ==
  IF o.state = "Bound"
  THEN {HitNull} \cup {Hit(i - 1, o.data.els[i].features) : i \in DOMAIN o.data.els}
  ELSE {HitNull}

\* hitTest's effect on the overlay: none, but a usage fault when Disposed.
OvHitTest(o) == IF o.state = "Disposed" THEN UsageFault(o) ELSE o

----------------------------------------------------------------------------
(* OverlayMap: calls made by the handlers *)

\* Arguments of a call: null, a number, or a reference to an object.
ArgNull == [kind |-> "null", num |-> 0, ref |-> ""]
ArgNumber(n) == [kind |-> "number", num |-> n, ref |-> ""]
ArgObject(r) == [kind |-> "object", num |-> 0, ref |-> r]

\* One call: the function, its (up to three) arguments, for
\* overlay.updateData the layers passed, and for overlay.hitTest what it
\* returned.
Call(fn, a1, a2, a3) ==
  [fn |-> fn, a1 |-> a1, a2 |-> a2, a3 |-> a3, data |-> NoData, ret |-> HitNull]
Call0(fn) == Call(fn, ArgNull, ArgNull, ArgNull)
UpdateDataCall(d) == [Call0("overlay.updateData") EXCEPT !.data = d]
HitTestCall(e, hit) ==
  [Call("overlay.hitTest", ArgObject(e), ArgNull, ArgNull) EXCEPT !.ret = hit]

MapProps == [data : DataValues, onClick : BOOLEAN, onBoundsChanged : BOOLEAN,
             onMouseOverPointer : BOOLEAN]

Events == {"e1", "e2"}

\* Mutant of MountCalls: the data is handed to the overlay before setMap.
MountCalls_UpdateFirst(p) ==
  (IF p.data.defined THEN <<UpdateDataCall(p.data)>> ELSE <<>>)
    \o <<Call0("overlay.setMap")>>

\* componentDidMount: the overlay calls it makes after registering the listeners.
MountCalls(p) ==
  <<Call0("overlay.setMap")>>
    \o (IF p.data.defined THEN <<UpdateDataCall(p.data)>> ELSE <<>>)

\* utils.zip, then the loop of didDataChange over the pairs.
didDataChange(prevData, data) ==
  IF Len(prevData.els) # Len(data.els) THEN TRUE
  ELSE \E i \in DOMAIN prevData.els : ~shallowEqual(prevData.els[i], data.els[i])

\* componentDidUpdate(prevProps): reading .length of an undefined data array
\* throws a TypeError; otherwise changed data is handed to the overlay.
DidUpdateCalls(p, prevProps) ==
  IF ~p.data.defined \/ ~prevProps.data.defined
  THEN [threw |-> TRUE, calls |-> <<>>]
  ELSE [threw |-> FALSE,
        calls |-> IF didDataChange(p.data, prevProps.data)
                  THEN <<UpdateDataCall(p.data)>> ELSE <<>>]

\* Mutant of ClickArgs: `x && x[0] || null`, which turns layer index 0 into null.
ClickArgs_TruthyIndex(hit) ==
  [layerIndex |-> IF hit.null \/ hit.layerIndex = 0 THEN ArgNull
                  ELSE ArgNumber(hit.layerIndex),
   feature |-> IF hit.null THEN ArgNull ELSE ArgObject(hit.feature)]

\* `layerFeature && layerFeature[0]` and `layerFeature && layerFeature[1]`:
\* null when hitTest returned null (an array is truthy whatever it holds).
ClickArgs(hit) ==
  [layerIndex |-> IF hit.null THEN ArgNull ELSE ArgNumber(hit.layerIndex),
   feature |-> IF hit.null THEN ArgNull ELSE ArgObject(hit.feature)]

\* The click listener.
ClickCalls(p, e, hit) ==
  IF p.onClick
  THEN <<HitTestCall(e, hit),
         Call("props.onClick", ArgObject(e), ClickArgs(hit).layerIndex, ClickArgs(hit).feature)>>
  ELSE <<>>

\* The (throttled) mousemove listener.
MouseMoveCalls(e, hit) ==
  <<HitTestCall(e, hit), Call0("map.setOptions")>>

\* Mutant of BoundsChangedCalls: the prop is notified before the redraw.
BoundsChangedCalls_NotifyFirst(p) ==
  (IF p.onBoundsChanged THEN <<Call0("props.onBoundsChanged")>> ELSE <<>>)
    \o <<Call0("overlay.draw")>>

\* The bounds_changed listener: redraw, then report the new bounds.
BoundsChangedCalls(p) ==
  <<Call0("overlay.draw")>>
    \o (IF p.onBoundsChanged THEN <<Call0("props.onBoundsChanged")>> ELSE <<>>)

\* The overlay after one call of the component.
AfterCall(o, c) ==
  CASE c.fn = "overlay.setMap" -> OvSetMap(o)
    [] c.fn = "overlay.updateData" -> OvUpdateData(o, c.data)
    [] c.fn = "overlay.draw" -> OvDraw(o)
    [] c.fn = "overlay.hitTest" -> OvHitTest(o)
    [] OTHER -> o

RECURSIVE AfterCalls(_, _)
AfterCalls(o, cs) == IF cs = <<>> THEN o ELSE AfterCalls(AfterCall(o, Head(cs)), Tail(cs))

CountCalls(cs, fn) == Cardinality({i \in DOMAIN cs : cs[i].fn = fn})

\* Some updateData, draw or hitTest of cs is issued while no setMap has been.
IssuedEarly(cs) ==
  \E i \in DOMAIN cs :
    /\ cs[i].fn \in {"overlay.updateData", "overlay.draw", "overlay.hitTest"}
    /\ nSetMap = 0
    /\ \A k \in 1..(i - 1) : cs[k].fn # "overlay.setMap"

\* A handler runs to completion: its calls act on the overlay in order.
Runs(kind, e, cs) ==
  /\ lastEvent' = [kind |-> kind, event |-> e]
  /\ lastTrace' = cs
  /\ overlay' = AfterCalls(overlay, cs)
  /\ nDraws' = nDraws + CountCalls(cs, "overlay.draw")
  /\ nSetMap' = nSetMap + CountCalls(cs, "overlay.setMap")
  /\ earlyCall' = (earlyCall \/ IssuedEarly(cs))
  /\ ovLastCall' = IF \E i \in DOMAIN cs : cs[i].fn \in {"overlay.setMap",
                         "overlay.updateData", "overlay.draw", "overlay.hitTest"}
                   THEN cs[CHOOSE i \in DOMAIN cs :
                             /\ cs[i].fn \in {"overlay.setMap", "overlay.updateData",
                                              "overlay.draw", "overlay.hitTest"}
                             /\ \A k \in (i + 1)..Len(cs) : cs[k].fn \notin
                                  {"overlay.setMap", "overlay.updateData",
                                   "overlay.draw", "overlay.hitTest"}].fn
                   ELSE ovLastCall

----------------------------------------------------------------------------
(* OverlayMap: lifecycle and host events *)

IdleOverlay ==
  /\ overlay = NewOverlay
  /\ ovLastCall = "construct"
  /\ ovLastHit = HitNull

\* After the constructor: the overlay exists, nothing is mounted.
IdleComponent ==
  /\ mounted = FALSE
  /\ hasState = FALSE
  /\ pendingSetState = FALSE
  /\ mousemoveListener = FALSE
  /\ thrown = FALSE
  /\ lastEvent = [kind |-> "constructor", event |-> ""]
  /\ lastTrace = <<>>
  /\ nEvents = 0
  /\ nUpdates = 0
  /\ nBounds = 0
  /\ nDraws = 0
  /\ nSetMap = 0
  /\ earlyCall = FALSE

Init ==
  /\ file = NoFile
  /\ IdleCSV
  /\ IdleOverlay
  /\ IdleComponent
  /\ props \in MapProps

\* componentDidMount: creates the map, registers the listeners, binds the
\* overlay, hands it the data and calls setState({}).
ComponentDidMount ==
  /\ ~mounted
  /\ mounted' = TRUE
  /\ mousemoveListener' = props.onMouseOverPointer
  /\ pendingSetState' = TRUE
  /\ thrown' = FALSE
  /\ Runs("componentDidMount", "", MountCalls(props))
  /\ UNCHANGED <<props, hasState, nEvents, nUpdates, nBounds, ovLastHit, csvVars>>

\* React processes the setState({}) of componentDidMount: shouldComponentUpdate
\* compares the next state {} with this.state (null); when utils.shallowEqual
\* tells them apart (update = TRUE) the component re-renders and
\* componentDidUpdate runs with the props unchanged.
ProcessSetState(update) ==
  /\ mounted /\ pendingSetState
  /\ pendingSetState' = FALSE
  /\ hasState' = TRUE
  /\ LET r == DidUpdateCalls(props, props)
     IN /\ thrown' = (update /\ r.threw)
        /\ Runs("setState", "", IF update THEN r.calls ELSE <<>>)
  /\ UNCHANGED <<mounted, props, mousemoveListener, nEvents, nUpdates, nBounds,
                 ovLastHit, csvVars>>

\* The parent re-renders with nextProps: shouldComponentUpdate, and when the
\* props differ, componentDidUpdate(prevProps).  shouldComponentUpdate compares
\* the props one by one with ===; the data arrays are compared here by their
\* content, layer identities included (a new array of the same layer objects
\* only adds a componentDidUpdate that finds the data unchanged).
UpdateProps(nextProps) ==
  /\ mounted /\ ~pendingSetState
  /\ nextProps.onMouseOverPointer = props.onMouseOverPointer
  /\ nUpdates < MaxUpdates
  /\ nUpdates' = nUpdates + 1
  /\ props' = nextProps
  /\ LET should == nextProps # props
         r == DidUpdateCalls(nextProps, props)
     IN /\ thrown' = (should /\ r.threw)
        /\ Runs(IF should THEN "componentDidUpdate" ELSE "shouldComponentUpdate", "",
                IF should THEN r.calls ELSE <<>>)
  /\ UNCHANGED <<mounted, hasState, pendingSetState, mousemoveListener, nEvents,
                 nBounds, ovLastHit, csvVars>>

\* The host map delivers a click; hit is what overlay.hitTest answers.
Click(e, hit) ==
  /\ mounted /\ ~pendingSetState
  /\ nEvents < MaxEvents
  /\ hit \in OvHitResults(overlay)
  /\ nEvents' = nEvents + 1
  /\ props.onClick \/ hit = HitNull
  /\ Runs("click", e, ClickCalls(props, e, hit))
  /\ thrown' = FALSE
  /\ UNCHANGED <<mounted, props, hasState, pendingSetState, mousemoveListener,
                 nUpdates, nBounds, ovLastHit, csvVars>>

\* The host map delivers a mousemove; _.throttle either runs the listener or
\* drops the event.
MouseMove(e, hit, dropped) ==
  /\ mounted /\ ~pendingSetState
  /\ mousemoveListener
  /\ nEvents < MaxEvents
  /\ hit \in OvHitResults(overlay)
  /\ nEvents' = nEvents + 1
  /\ ~dropped \/ hit = HitNull
  /\ Runs("mousemove", e, IF dropped THEN <<>> ELSE MouseMoveCalls(e, hit))
  /\ thrown' = FALSE
  /\ UNCHANGED <<mounted, props, hasState, pendingSetState, mousemoveListener,
                 nUpdates, nBounds, ovLastHit, csvVars>>

\* The host map delivers bounds_changed.
BoundsChanged ==
  /\ mounted /\ ~pendingSetState
  /\ nEvents < MaxEvents
  /\ nEvents' = nEvents + 1
  /\ nBounds' = nBounds + 1
  /\ Runs("bounds_changed", "", BoundsChangedCalls(props))
  /\ thrown' = FALSE
  /\ UNCHANGED <<mounted, props, hasState, pendingSetState, mousemoveListener,
                 nUpdates, ovLastHit, csvVars>>

Next ==
  \/ ComponentDidMount
  \/ \E update \in BOOLEAN : ProcessSetState(update)
  \/ \E nextProps \in MapProps : UpdateProps(nextProps)
  \/ \E e \in Events : \E hit \in OvHitResults(overlay) : Click(e, hit)
  \/ \E e \in Events : \E hit \in OvHitResults(overlay) : \E dropped \in BOOLEAN :
       MouseMove(e, hit, dropped)
  \/ BoundsChanged

Spec == Init /\ [][Next]_vars

----------------------------------------------------------------------------
(* CanvasOverlay driven through its public contract *)

InitOverlay ==
  /\ file = NoFile
  /\ IdleCSV
  /\ IdleOverlay
  /\ IdleComponent
  /\ props = [data |-> NoData, onClick |-> FALSE, onBoundsChanged |-> FALSE,
              onMouseOverPointer |-> FALSE]

\* One call of a client on the overlay.
ClientCalls(name, o) ==
  /\ overlay.paints + overlay.faults < MaxCalls
  /\ overlay' = o
  /\ ovLastCall' = name
  /\ UNCHANGED <<csvVars, cmVars>>

SetMap == ClientCalls("setMap", OvSetMap(overlay)) /\ UNCHANGED ovLastHit
UpdateData(d) == ClientCalls("updateData", OvUpdateData(overlay, d)) /\ UNCHANGED ovLastHit
Draw == ClientCalls("draw", OvDraw(overlay)) /\ UNCHANGED ovLastHit
Dispose == ClientCalls("dispose", OvDispose(overlay)) /\ UNCHANGED ovLastHit
HitTest(hit) ==
  /\ hit \in OvHitResults(overlay)
  /\ ClientCalls("hitTest", OvHitTest(overlay))
  /\ ovLastHit' = hit

\* The host reports a viewport change to a bound overlay (its listeners are
\* detached by dispose).
ViewportChanged ==
  /\ overlay.state = "Bound"
  /\ ClientCalls("viewport", Repaint(overlay))
  /\ UNCHANGED ovLastHit

NextOverlay ==
  \/ SetMap
  \/ \E d \in DataArrays : UpdateData(d)
  \/ Draw
  \/ Dispose
  \/ \E hit \in OvHitResults(overlay) : HitTest(hit)
  \/ ViewportChanged

SpecOverlay == InitOverlay /\ [][NextOverlay]_vars

----------------------------------------------------------------------------
(* CSV loader: specification *)

InitCSV ==
  /\ file \in {NoFile} \cup LayoutFiles \cup CellFiles
  /\ IdleCSV
  /\ IdleOverlay
  /\ IdleComponent
  /\ props = [data |-> NoData, onClick |-> FALSE, onBoundsChanged |-> FALSE,
              onMouseOverPointer |-> FALSE]

NextCSV ==
  \/ \E s \in Specs : LoadCSV(s)
  \/ \E n \in 1..(MaxRows + 1) : ParserChunk(n)
  \/ ParserEnd

SpecCSV == InitCSV /\ [][NextCSV]_vars

----------------------------------------------------------------------------
(* CSV loader: properties *)

Range(f) == {f[i] : i \in DOMAIN f}
Called == promise # "none"
Header == file.rows[1]

\* The spec has a column that is not optional and whose name the header lacks.
RequiredMissing ==
  \E i \in DOMAIN spec.columns :
    ~spec.columns[i].optional /\ spec.columns[i].name \notin Range(Header)

\* The destination field of a spec column: its destination, or its name.
FieldOf(c) == IF c.destination = NoDest THEN c.name ELSE c.destination

\* No two columns of the spec share a destination field.
DistinctFields ==
  \A i, j \in DOMAIN spec.columns :
    i # j => FieldOf(spec.columns[i]) # FieldOf(spec.columns[j])

\* The spec columns whose name occurs in the header.
Present == {i \in DOMAIN spec.columns : spec.columns[i].name \in Range(Header)}

\* The raw cell of data row r under the header's column `name` (Undefined
\* when the row is too short).
RawCell(r, name) ==
  LET p == CHOOSE p \in DOMAIN Header : Header[p] = name
      row == file.rows[r + 1]
  IN IF p <= Len(row) THEN row[p] ELSE Undefined

Loaded == promise = "resolved" /\ parserStarted

C2_Original ==
  (Called /\ ~file.exists) =>
     /\ IF spec.isOptional
        THEN promise = "resolved" /\ result = <<>>
        ELSE promise = "rejected"
     /\ ~parserStarted

\* C2 amended: for every spec whose destination fields are distinct, a missing
\* file gives an empty result when the spec is optional and a rejection
\* otherwise; a spec with a duplicate field is rejected whatever isOptional
\* says; the parser is started in none of these cases.
C2_MissingFile ==
  (Called /\ ~file.exists) =>
     /\ IF DistinctFields
        THEN IF spec.isOptional
             THEN promise = "resolved" /\ result = <<>>
             ELSE promise = "rejected"
        ELSE promise = "rejected"
     /\ ~parserStarted

\* C2 witness: an optional spec of two columns resolved empty on a missing file.
C2_Witness ==
  /\ Called /\ ~file.exists /\ spec.isOptional /\ Len(spec.columns) = 2
  /\ promise = "resolved" /\ result = <<>>

\* C3: every record of a successful load has exactly one field per spec column
\* whose name occurs in the header, keyed by the column's destination (or its
\* name), holding the conversion of the cell at the column's header position;
\* it has no other field.
C3_RecordFields ==
  Loaded =>
    \A r \in DOMAIN result :
      /\ r + 1 \in DOMAIN file.rows
      /\ DOMAIN result[r] = {FieldOf(spec.columns[i]) : i \in Present}
      /\ Cardinality(DOMAIN result[r]) = Cardinality(Present)
      /\ \A i \in Present :
           result[r][FieldOf(spec.columns[i])] =
             ConvertCell(spec.columns[i].type, RawCell(r, spec.columns[i].name))

\* C3 witness: a record with the fields "x" and "b" read under the header
\* b, a (the spec names a first, with destination x), the field x holding the
\* second cell of the row.
C3_Witness ==
  /\ Loaded /\ Len(result) > 0
  /\ Header = <<"b", "a">>
  /\ file.rows[2] = <<"1", "0">>
  /\ Len(spec.columns) = 2
  /\ spec.columns[1] = [name |-> "a", type |-> ColumnType_STRING, optional |-> FALSE,
                        destination |-> "x"]
  /\ DOMAIN result[1] = {"x", "b"}
  /\ result[1]["x"] = JSString("0")

\* C4: a BOOLEAN column's field is true iff the raw cell is exactly "1", and
\* false for every other raw value, the cell missing from a short row included.
C4_BooleanIffOne ==
  Loaded =>
    \A r \in DOMAIN result : \A i \in Present :
      spec.columns[i].type = ColumnType_BOOLEAN =>
        LET v == result[r][FieldOf(spec.columns[i])]
            raw == RawCell(r, spec.columns[i].name)
        IN /\ v \in {<<"boolean", "true">>, <<"boolean", "false">>}
           /\ v = <<"boolean", "true">> <=> raw = "1"

\* C4 witness: one load whose BOOLEAN field is true for "1" and false for " 1",
\* and one whose field is false for a cell missing from a short row.
C4_Witness ==
  /\ Loaded /\ Len(result) = 2 /\ Len(spec.columns) = 1
  /\ spec.columns[1].type = ColumnType_BOOLEAN /\ spec.columns[1].name = "a"
  /\ spec.columns[1].destination = NoDest
  /\ result[1]["a"] = <<"boolean", "true">>
  /\ result[2]["a"] = <<"boolean", "false">>
  /\ RawCell(2, "a") \in {" 1", Undefined}

\* C8: however the parser cuts the file into chunks, the header is the first
\* row of the file and no other, every later row yields one record, and the
\* records are delivered in file order: record r is built from row r + 1.
C8_RecordsInFileOrder ==
  Loaded =>
    /\ Len(result) = Len(file.rows) - 1
    /\ ~columns.null
    /\ columns.cols = addDestinations(extractColumnMapping(spec.columns, Header).out)
    /\ \A r \in DOMAIN result :
         result[r] = RowObject(columns.cols, file.rows[r + 1], 1, EmptyObject)

\* C8 witness: two different records delivered in file order from a file read
\* in three chunks (the header alone, then one row per chunk).
C8_Witness ==
  /\ Loaded /\ chunks = 3 /\ Len(result) = 2
  /\ result[1] # result[2]
  /\ Len(spec.columns) > 0

----------------------------------------------------------------------------
(* OverlayMap and CanvasOverlay: properties *)

\* The positions of the calls of fn in the last handler's trace.
CallsOf(fn) == {i \in DOMAIN lastTrace : lastTrace[i].fn = fn}

\* C5: a click delivered while onClick is set calls onClick exactly once, with
\* the event and with the layer index and feature overlay.hitTest returned for
\* it, both null when hitTest returned null; layer index 0 is passed as 0.
C5_ClickDelivered ==
  (lastEvent.kind = "click" /\ props.onClick) =>
    /\ Cardinality(CallsOf("props.onClick")) = 1
    /\ Cardinality(CallsOf("overlay.hitTest")) = 1
    /\ \A i \in CallsOf("props.onClick") : \A j \in CallsOf("overlay.hitTest") :
         LET hit == lastTrace[j].ret
             c == lastTrace[i]
         IN /\ j < i
            /\ lastTrace[j].a1 = ArgObject(lastEvent.event)
            /\ c.a1 = ArgObject(lastEvent.event)
            /\ hit.null => c.a2 = ArgNull /\ c.a3 = ArgNull
            /\ ~hit.null => /\ c.a2 = ArgNumber(hit.layerIndex)
                            /\ c.a3 = ArgObject(hit.feature)

\* C5 witness: a click that hit the feature of layer 0 was delivered to onClick
\* as layer index 0 with that feature.
C5_Witness ==
  /\ lastEvent = [kind |-> "click", event |-> "e2"]
  /\ props.onClick
  /\ Len(lastTrace) = 2
  /\ lastTrace[1].ret = Hit(0, "f2")
  /\ lastTrace[2].fn = "props.onClick"
  /\ lastTrace[2].a1 = ArgObject("e2")
  /\ lastTrace[2].a2 = ArgNumber(0)
  /\ lastTrace[2].a3 = ArgObject("f2")

\* C6: hitTest returns null whenever the overlay is not Bound (before any
\* setMap, and after dispose); Disposed is never left, and a call on a
\* disposed overlay changes neither the canvas nor the layers and is reported
\* to the fault sink.
C6_OverlayStateMachine ==
  /\ []((ovLastCall = "hitTest" /\ overlay.state # "Bound") => ovLastHit = HitNull)
  /\ [][overlay.state = "Disposed" =>
          /\ overlay'.state = "Disposed"
          /\ overlay'.paints = overlay.paints
          /\ overlay'.data = overlay.data
          /\ overlay'.faults = overlay.faults + 1]_vars

\* C6 witness: updateData was called on an overlay disposed after it had
\* painted layers; the call was reported as a fault.
C6_Witness ==
  /\ overlay.state = "Disposed"
  /\ ovLastCall = "updateData"
  /\ overlay.data.defined /\ Len(overlay.data.els) = 2
  /\ overlay.paints > 0
  /\ overlay.faults > 0

\* C7: the component has issued one overlay.draw() per bounds_changed event
\* delivered, and within the handler of an event the draw comes first, before
\* onBoundsChanged is notified.
C7_RedrawPerBoundsEvent ==
  /\ nDraws = nBounds
  /\ lastEvent.kind = "bounds_changed" =>
       /\ Cardinality(CallsOf("overlay.draw")) = 1
       /\ Cardinality(CallsOf("props.onBoundsChanged")) <= 1
       /\ \A i \in CallsOf("overlay.draw") : \A j \in CallsOf("props.onBoundsChanged") : i < j

\* C7 witness: two bounds_changed events gave two draws, the second followed by
\* the notification of onBoundsChanged.
C7_Witness ==
  /\ nBounds = 2 /\ nDraws = 2
  /\ lastEvent.kind = "bounds_changed"
  /\ Len(lastTrace) = 2
  /\ lastTrace[1].fn = "overlay.draw"
  /\ lastTrace[2].fn = "props.onBoundsChanged"

\* The layers last handed to the overlay are element-wise shallow-equal to the
\* data prop (both absent, or arrays of one length with shallow-equal layers).
DataInStep ==
  /\ overlay.data.defined = props.data.defined
  /\ Len(overlay.data.els) = Len(props.data.els)
  /\ \A i \in DOMAIN props.data.els : shallowEqual(overlay.data.els[i], props.data.els[i])

\* C9 as stated: componentDidUpdate, run for changed props, never throws, and
\* after it the layers last handed to the overlay are in step with the data
\* prop (also when data was absent at mount and is supplied later).
C9_Original ==
  lastEvent.kind = "componentDidUpdate" => (~thrown /\ DataInStep)

\* C10: overlay.setMap is called once, at mount, and no updateData, draw or
\* hitTest of the component precedes it: a mounted component's overlay is Bound.
C10_SetMapOnceFirst ==
  /\ nSetMap = IF mounted THEN 1 ELSE 0
  /\ ~earlyCall
  /\ mounted => overlay.state = "Bound"

\* C10 witness: after a mount with data, a bounds_changed and a mousemove have
\* each reached the overlay, bound once.
C10_Witness ==
  /\ mounted /\ nSetMap = 1
  /\ overlay.data.defined
  /\ nDraws = 1
  /\ lastEvent.kind = "mousemove"
  /\ CallsOf("overlay.hitTest") # {}

====
